---- MODULE Spec2Model ----
(***************************************************************************)
(* Model of the in-memory ledger with per-category budgets.                *)
(*                                                                         *)
(* The repository holds two executables, both `package main`:              *)
(*   - the budget ledger (AddTransaction with budget check, SetBudget,     *)
(*     GetBudget, ListBudgets, LoadBudgets, GetCategoryTotal,              *)
(*     ListTransactions);                                                  *)
(*   - src/ledger/main.go, the earlier ledger without budgets              *)
(*     (AddTransaction, ListTransactions).                                 *)
(* `program` says which of the two is running; it is chosen in Init and    *)
(* never changes.                                                          *)
(*                                                                         *)
(* Amounts and limits are float64 in the source.  They are modelled as     *)
(* small integers (amounts in whole units), on which float64 arithmetic    *)
(* and comparison are exact; NaN and the infinities are not in the input   *)
(* sets.                                                                   *)
(***************************************************************************)
EXTENDS Integers, Sequences, FiniteSets, TLC

VARIABLES
    program,       \* which executable runs: "budget" or "ledger"
    transactions,  \* var transactions []Transaction
    budgets,       \* var budgets map[string]Budget (a function on its keys)
    last,          \* the last call: its name, arguments and results
    listed,        \* the collection a List call returned, held by the caller
    ceiling        \* history, per category: how its budget came to be set

vars == <<program, transactions, budgets, last, listed, ceiling>>

(***************************************************************************)
(* Bounds and input sets                                                   *)
(***************************************************************************)
MaxTx == 2        \* stored transactions
MaxLoad == 3      \* longest decoded budget list
MaxMutations == 1 \* writes a caller makes to one returned collection

Programs == {"budget", "ledger"}
Categories == {"Food", "food"}
CategoryInputs == Categories \cup {""}
AmountInputs == {-1, 0, 1, 2}
ZeroTime == 0                  \* time.Time{}: IsZero() holds
Times == {1}                   \* the instants time.Now() can return
InputIDs == {9}                \* an ID a caller filled in

\* type Transaction struct
Transaction(id, amount, category, date) ==
    [ID |-> id, Amount |-> amount, Category |-> category,
     Description |-> "d", Date |-> date]

\* type Budget struct
Budget(category, limit, period) ==
    [Category |-> category, Limit |-> limit, Period |-> period]

\* A transaction as a caller passes it: with ID and Date left at their zero
\* values, or with both filled in.
TxShapes(amounts, categories) ==
    {Transaction(0, a, c, ZeroTime) : a \in amounts, c \in categories}
        \cup {Transaction(id, a, c, d) :
                 id \in InputIDs, a \in amounts, c \in categories, d \in Times}

TxInputs == TxShapes(AmountInputs, Categories)

LedgerTxInputs == TxShapes(AmountInputs, CategoryInputs)

\* The limit and period of a valid budget: two limits, and two periods for
\* one of them, so that a budget can be re-set with another limit, another
\* period, or both.
BudgetShapes == {<<1, "monthly">>, <<2, "monthly">>, <<2, "weekly">>}

\* Budgets SetBudget accepts, and budgets it rejects: an empty category, a
\* zero limit, a negative limit, and both faults at once.
BudgetInputs ==
    {Budget(c, sh[1], sh[2]) : c \in Categories, sh \in BudgetShapes}
        \cup {Budget("", 1, "monthly"), Budget("Food", 0, "monthly"),
              Budget("food", -1, "weekly"), Budget("", 0, "weekly")}

RECURSIVE SeqsUpTo(_, _)
SeqsUpTo(S, n) ==
    IF n = 0 THEN {<<>>}
    ELSE LET shorter == SeqsUpTo(S, n - 1)
         IN shorter \cup {Append(t, x) : t \in {u \in shorter : Len(u) = n - 1}, x \in S}

\* the records of the decoded lists: an override of limit and period, a
\* second category, and one record of each kind SetBudget rejects
LoadRecords ==
    {Budget("Food", 1, "monthly"), Budget("Food", 2, "weekly"),
     Budget("food", 1, "monthly"), Budget("", 1, "monthly"),
     Budget("food", 0, "weekly")}

Reader(decodes, list) == [decodes |-> decodes, list |-> list]

\* what the io.Reader holds: undecodable bytes, or a JSON list of budgets
ReaderInputs ==
    {Reader(FALSE, <<>>)} \cup {Reader(TRUE, l) : l \in SeqsUpTo(LoadRecords, MaxLoad)}

\* the same, with at most one record in the list
ShortReaderInputs ==
    {Reader(FALSE, <<>>)} \cup {Reader(TRUE, l) : l \in SeqsUpTo(LoadRecords, 1)}

\* the inputs of the calls made while a caller holds a returned collection
ListTxInputs == TxShapes({0, 1}, {"Food"})
ListBudgetInputs == {Budget("Food", 1, "monthly"), Budget("food", 2, "weekly")}

(***************************************************************************)
(* Errors                                                                  *)
(***************************************************************************)
Nil == [kind |-> "nil"]
ErrZeroAmount == [kind |-> "ZeroAmount"]
ErrBudgetExceeded(category, currentTotal, amount, limit) ==
    [kind |-> "BudgetExceeded", category |-> category,
     currentTotal |-> currentTotal, amount |-> amount, limit |-> limit]
ErrEmptyCategory == [kind |-> "EmptyCategory"]
ErrNonPositiveLimit == [kind |-> "NonPositiveLimit"]
ErrDecode == [kind |-> "DecodeFailure"]
ErrSetFailure(category, cause) ==
    [kind |-> "SetFailure", category |-> category, cause |-> cause]

(***************************************************************************)
(* The budget ledger's functions                                           *)
(***************************************************************************)
RECURSIVE scanTotal(_, _, _, _)
scanTotal(txs, category, i, total) ==
    IF i > Len(txs) THEN total
    ELSE scanTotal(txs, category, i + 1,
                   IF txs[i].Category = category
                   THEN total + txs[i].Amount ELSE total)

\* variant: categories are compared without regard to case
calculateCategoryTotalFold(txs, category) ==
    IF category \in {"Food", "food"}
    THEN scanTotal(txs, "Food", 1, 0) + scanTotal(txs, "food", 1, 0)
    ELSE scanTotal(txs, category, 1, 0)

\* func calculateCategoryTotal(category string) float64
calculateCategoryTotal(txs, category) == scanTotal(txs, category, 1, 0)

\* func GetCategoryTotal(category string) float64
GetCategoryTotalCall(txs, category) == calculateCategoryTotal(txs, category)

\* variant: the identifier is the length before the append
NextIDFromZero(txs) == Len(txs)

\* tx.ID = len(transactions) + 1
NextID(txs) == Len(txs) + 1

\* if tx.Date.IsZero() { tx.Date = time.Now() }
DefaultDate(date, now) == IF date = ZeroTime THEN now ELSE date

\* variant: a total that reaches the limit is already too much
ExceedsBudgetAtLimit(currentTotal, amount, limit) == currentTotal + amount >= limit

\* variant: the check looks at the stored total only
ExceedsBudgetIgnoringAmount(currentTotal, amount, limit) == currentTotal > limit

\* if currentTotal+tx.Amount > budget.Limit
ExceedsBudget(currentTotal, amount, limit) == currentTotal + amount > limit

\* variant: no amount is refused
IsZeroAmountNever(amount) == FALSE

\* if tx.Amount == 0
IsZeroAmount(amount) == amount = 0

\* variant: the map lookup's zero Budget stands in for a missing budget
AddTransactionCallNoExists(txs, bs, tx, now) ==
    LET limit == IF tx.Category \in DOMAIN bs THEN bs[tx.Category].Limit ELSE 0
    IN IF tx.Amount = 0
       THEN [err |-> ErrZeroAmount, transactions |-> txs]
       ELSE IF calculateCategoryTotal(txs, tx.Category) + tx.Amount > limit
       THEN [err |-> ErrBudgetExceeded(tx.Category,
                                       calculateCategoryTotal(txs, tx.Category),
                                       tx.Amount, limit),
             transactions |-> txs]
       ELSE [err |-> Nil,
             transactions |->
                 Append(txs, [tx EXCEPT !.ID = Len(txs) + 1,
                                        !.Date = IF tx.Date = ZeroTime
                                                 THEN now ELSE tx.Date])]

\* func AddTransaction(tx Transaction) error   (budget ledger)
AddTransactionCall(txs, bs, tx, now) ==
    IF IsZeroAmount(tx.Amount)
    THEN [err |-> ErrZeroAmount, transactions |-> txs]
    ELSE IF tx.Category \in DOMAIN bs
            /\ ExceedsBudget(calculateCategoryTotal(txs, tx.Category),
                             tx.Amount, bs[tx.Category].Limit)
    THEN [err |-> ErrBudgetExceeded(tx.Category,
                                    calculateCategoryTotal(txs, tx.Category),
                                    tx.Amount, bs[tx.Category].Limit),
          transactions |-> txs]
    ELSE [err |-> Nil,
          transactions |->
              Append(txs, [tx EXCEPT !.ID = NextID(txs),
                                     !.Date = DefaultDate(tx.Date, now)])]

\* variant: an existing entry is kept
MapSetIfAbsent(bs, key, b) ==
    [k \in DOMAIN bs \cup {key} |-> IF k \in DOMAIN bs THEN bs[k] ELSE b]

\* budgets[b.Category] = b
MapSet(bs, key, b) ==
    [k \in DOMAIN bs \cup {key} |-> IF k = key THEN b ELSE bs[k]]

\* variant: only a negative limit is refused
SetBudgetCallZeroLimit(bs, b) ==
    IF b.Category = ""
    THEN [err |-> ErrEmptyCategory, budgets |-> bs]
    ELSE IF b.Limit < 0
    THEN [err |-> ErrNonPositiveLimit, budgets |-> bs]
    ELSE [err |-> Nil, budgets |-> [k \in DOMAIN bs \cup {b.Category} |->
                                       IF k = b.Category THEN b ELSE bs[k]]]

\* func SetBudget(b Budget) error
SetBudgetCall(bs, b) ==
    IF b.Category = ""
    THEN [err |-> ErrEmptyCategory, budgets |-> bs]
    ELSE IF b.Limit <= 0
    THEN [err |-> ErrNonPositiveLimit, budgets |-> bs]
    ELSE [err |-> Nil, budgets |-> MapSet(bs, b.Category, b)]

\* func GetBudget(category string) (Budget, bool)
GetBudgetCall(bs, category) ==
    IF category \in DOMAIN bs
    THEN [budget |-> bs[category], exists |-> TRUE]
    ELSE [budget |-> Budget("", 0, ""), exists |-> FALSE]

RECURSIVE loadLoopContinue(_, _, _)
\* variant: a rejected record is reported and the loop goes on
loadLoopContinue(bs, budgetList, i) ==
    IF i > Len(budgetList)
    THEN [err |-> Nil, budgets |-> bs, applied |-> Len(budgetList)]
    ELSE LET r == SetBudgetCall(bs, budgetList[i])
             rest == loadLoopContinue(r.budgets, budgetList, i + 1)
         IN IF r.err # Nil
            THEN [err |-> ErrSetFailure(budgetList[i].Category, r.err.kind),
                  budgets |-> rest.budgets, applied |-> i - 1]
            ELSE rest

RECURSIVE loadLoop(_, _, _)
\* for _, budget := range budgetList { if err := SetBudget(budget) ... }
loadLoop(bs, budgetList, i) ==
    IF i > Len(budgetList)
    THEN [err |-> Nil, budgets |-> bs, applied |-> Len(budgetList)]
    ELSE LET r == SetBudgetCall(bs, budgetList[i])
         IN IF r.err # Nil
            THEN [err |-> ErrSetFailure(budgetList[i].Category, r.err.kind),
                  budgets |-> r.budgets, applied |-> i - 1]
            ELSE loadLoop(r.budgets, budgetList, i + 1)

\* func LoadBudgets(r io.Reader) error
LoadBudgetsCall(bs, r) ==
    IF ~r.decodes
    THEN [err |-> ErrDecode, budgets |-> bs, applied |-> 0]
    ELSE loadLoop(bs, r.list, 1)

\* A collection handed to a caller.  backing says whose storage its elements
\* live in: "copy" is storage of its own, "store" is the storage of the
\* package-level variable, so that a write through it is a write to the store.
Returned(kind, backing, elems) ==
    [kind |-> kind, backing |-> backing, elems |-> elems, mutations |-> 0]

\* variant: the package-level slice itself is returned
ListTransactionsCallShared(txs) == Returned("transactions", "store", txs)

\* func ListTransactions() []Transaction: make, then copy
ListTransactionsCall(txs) == Returned("transactions", "copy", txs)

\* func ListBudgets() map[string]Budget: make, then one assignment per key
ListBudgetsCall(bs) == Returned("budgets", "copy", [k \in DOMAIN bs |-> bs[k]])

(***************************************************************************)
(* src/ledger/main.go: the ledger without budgets                          *)
(***************************************************************************)
\* func AddTransaction(tx Transaction) error   (src/ledger/main.go)
LedgerAddTransactionCall(txs, tx, now) ==
    IF tx.Amount = 0
    THEN [err |-> ErrZeroAmount, transactions |-> txs]
    ELSE [err |-> Nil,
          transactions |->
              Append(txs, [tx EXCEPT !.ID = Len(txs) + 1,
                                     !.Date = IF tx.Date = ZeroTime
                                              THEN now ELSE tx.Date])]

\* func ListTransactions() []Transaction   (src/ledger/main.go)
LedgerListTransactionsCall(txs) == Returned("transactions", "copy", txs)

(***************************************************************************)
(* History of how each category's budget was set (not program state):      *)
(*   "unset"  no budget was ever set for the category;                     *)
(*   "ok"     the first budget was set while no transaction of the         *)
(*            category was stored, and no later set lowered the limit;     *)
(*   "void"   otherwise.                                                   *)
(***************************************************************************)
HasCategory(txs, c) == \E i \in 1..Len(txs) : txs[i].Category = c

CeilingAfterSet(cl, bs, txs, b) ==
    LET c == b.Category
    IN [cl EXCEPT ![c] =
           IF c \notin DOMAIN bs
           THEN IF HasCategory(txs, c) THEN "void" ELSE "ok"
           ELSE IF b.Limit < bs[c].Limit THEN "void" ELSE cl[c]]

RECURSIVE CeilingAfterLoad(_, _, _, _, _, _)
CeilingAfterLoad(cl, bs, txs, budgetList, i, applied) ==
    IF i > applied THEN cl
    ELSE CeilingAfterLoad(CeilingAfterSet(cl, bs, txs, budgetList[i]),
                          SetBudgetCall(bs, budgetList[i]).budgets,
                          txs, budgetList, i + 1, applied)

(***************************************************************************)
(* State machine                                                           *)
(***************************************************************************)
EmptyMap == [k \in {} |-> Budget("", 0, "")]
NoList == [kind |-> "none"]

Init ==
    /\ program \in Programs
    /\ transactions = <<>>
    /\ budgets = EmptyMap
    /\ last = [op |-> "start"]
    /\ listed = NoList
    /\ ceiling = [c \in Categories |-> "unset"]

AddTransaction(tx, now) ==
    /\ program = "budget"
    /\ LET r == AddTransactionCall(transactions, budgets, tx, now)
       IN /\ Len(r.transactions) <= MaxTx
          /\ transactions' = r.transactions
          /\ last' = [op |-> "AddTransaction", tx |-> tx, err |-> r.err]
    /\ UNCHANGED <<program, budgets, listed, ceiling>>

SetBudget(b) ==
    /\ program = "budget"
    /\ LET r == SetBudgetCall(budgets, b)
       IN /\ budgets' = r.budgets
          /\ last' = [op |-> "SetBudget", b |-> b, err |-> r.err,
                      old |-> GetBudgetCall(budgets, b.Category)]
          /\ ceiling' = IF r.err = Nil
                        THEN CeilingAfterSet(ceiling, budgets, transactions, b)
                        ELSE ceiling
    /\ UNCHANGED <<program, transactions, listed>>

LoadBudgets(rd) ==
    /\ program = "budget"
    /\ LET r == LoadBudgetsCall(budgets, rd)
       IN /\ budgets' = r.budgets
          /\ last' = [op |-> "LoadBudgets", r |-> rd, err |-> r.err]
          /\ ceiling' = CeilingAfterLoad(ceiling, budgets, transactions,
                                         rd.list, 1, r.applied)
    /\ UNCHANGED <<program, transactions, listed>>

GetCategoryTotal(category) ==
    /\ program = "budget"
    /\ last' = [op |-> "GetCategoryTotal", category |-> category,
                total |-> GetCategoryTotalCall(transactions, category)]
    /\ UNCHANGED <<program, transactions, budgets, listed, ceiling>>

GetBudget(category) ==
    /\ program = "budget"
    /\ LET r == GetBudgetCall(budgets, category)
       IN last' = [op |-> "GetBudget", category |-> category,
                   budget |-> r.budget, exists |-> r.exists]
    /\ UNCHANGED <<program, transactions, budgets, listed, ceiling>>

ListTransactions ==
    /\ program = "budget"
    /\ listed' = ListTransactionsCall(transactions)
    /\ last' = [op |-> "ListTransactions"]
    /\ UNCHANGED <<program, transactions, budgets, ceiling>>

ListBudgets ==
    /\ program = "budget"
    /\ listed' = ListBudgetsCall(budgets)
    /\ last' = [op |-> "ListBudgets"]
    /\ UNCHANGED <<program, transactions, budgets, ceiling>>

LedgerAddTransaction(tx, now) ==
    /\ program = "ledger"
    /\ LET r == LedgerAddTransactionCall(transactions, tx, now)
       IN /\ Len(r.transactions) <= MaxTx
          /\ transactions' = r.transactions
          /\ last' = [op |-> "AddTransaction", tx |-> tx, err |-> r.err]
    /\ UNCHANGED <<program, budgets, listed, ceiling>>

LedgerListTransactions ==
    /\ program = "ledger"
    /\ listed' = LedgerListTransactionsCall(transactions)
    /\ last' = [op |-> "ListTransactions"]
    /\ UNCHANGED <<program, transactions, budgets, ceiling>>

(***************************************************************************)
(* The caller's writes to the collection a List call returned.  A slice    *)
(* shares its elements with whatever backs it: allResults[i] = v writes    *)
(* the backing array.  A map value is a reference: m[k] = v and            *)
(* delete(m, k) change the one map behind it.                              *)
(***************************************************************************)
ZeroTransaction == Transaction(0, 0, "", ZeroTime)
ZeroBudget == Budget("", 0, "")

\* result[i] = Transaction{}
WriteListedElement(i) ==
    /\ listed.kind = "transactions"
    /\ listed.mutations < MaxMutations
    /\ i \in 1..Len(listed.elems)
    /\ listed' = [listed EXCEPT !.elems[i] = ZeroTransaction,
                                !.mutations = @ + 1]
    /\ transactions' = IF listed.backing = "store" /\ i <= Len(transactions)
                       THEN [transactions EXCEPT ![i] = ZeroTransaction]
                       ELSE transactions
    /\ last' = [op |-> "WriteListedElement"]
    /\ UNCHANGED <<program, budgets, ceiling>>

\* result = result[:len(result)-1]: only the caller's slice header changes
TruncateListed ==
    /\ listed.kind = "transactions"
    /\ listed.mutations < MaxMutations
    /\ Len(listed.elems) > 0
    /\ listed' = [listed EXCEPT !.elems = SubSeq(@, 1, Len(@) - 1),
                                !.mutations = @ + 1]
    /\ last' = [op |-> "TruncateListed"]
    /\ UNCHANGED <<program, transactions, budgets, ceiling>>

\* result[k] = Budget{}
WriteListedKey(k) ==
    /\ listed.kind = "budgets"
    /\ listed.mutations < MaxMutations
    /\ listed' = [listed EXCEPT !.elems = MapSet(@, k, ZeroBudget),
                                !.mutations = @ + 1]
    /\ budgets' = IF listed.backing = "store"
                  THEN MapSet(budgets, k, ZeroBudget) ELSE budgets
    /\ last' = [op |-> "WriteListedKey"]
    /\ UNCHANGED <<program, transactions, ceiling>>

\* delete(result, k)
DeleteListedKey(k) ==
    /\ listed.kind = "budgets"
    /\ listed.mutations < MaxMutations
    /\ k \in DOMAIN listed.elems
    /\ listed' = [listed EXCEPT
                      !.elems = [x \in DOMAIN @ \ {k} |-> @[x]],
                      !.mutations = @ + 1]
    /\ budgets' = IF listed.backing = "store"
                  THEN [x \in DOMAIN budgets \ {k} |-> budgets[x]] ELSE budgets
    /\ last' = [op |-> "DeleteListedKey"]
    /\ UNCHANGED <<program, transactions, ceiling>>

(***************************************************************************)
(* Specifications                                                          *)
(***************************************************************************)
\* The two programs under every call sequence.
Next ==
    \/ \E tx \in TxInputs, now \in Times : AddTransaction(tx, now)
    \/ \E b \in BudgetInputs : SetBudget(b)
    \/ \E rd \in ShortReaderInputs : LoadBudgets(rd)
    \/ \E c \in CategoryInputs : GetCategoryTotal(c)
    \/ \E c \in CategoryInputs : GetBudget(c)
    \/ \E tx \in LedgerTxInputs, now \in Times : LedgerAddTransaction(tx, now)

Spec == Init /\ [][Next]_vars

\* The budget registry under bulk loads of up to MaxLoad records.
InitBudget ==
    /\ program = "budget"
    /\ transactions = <<>>
    /\ budgets = EmptyMap
    /\ last = [op |-> "start"]
    /\ listed = NoList
    /\ ceiling = [c \in Categories |-> "unset"]

NextLoad ==
    \/ \E b \in LoadRecords : SetBudget(b)
    \/ \E rd \in ReaderInputs : LoadBudgets(rd)
    \/ \E c \in CategoryInputs : GetBudget(c)

SpecLoad == InitBudget /\ [][NextLoad]_vars

\* A caller that lists, writes to what it was given, and calls on.
NextList ==
    \/ \E tx \in ListTxInputs, now \in Times : AddTransaction(tx, now)
    \/ \E b \in ListBudgetInputs : SetBudget(b)
    \/ \E c \in Categories : GetCategoryTotal(c)
    \/ \E c \in Categories : GetBudget(c)
    \/ ListTransactions
    \/ ListBudgets
    \/ \E tx \in ListTxInputs, now \in Times : LedgerAddTransaction(tx, now)
    \/ LedgerListTransactions
    \/ \E i \in 1..MaxTx : WriteListedElement(i)
    \/ TruncateListed
    \/ \E k \in Categories : WriteListedKey(k)
    \/ \E k \in Categories : DeleteListedKey(k)

SpecList == Init /\ [][NextList]_vars

(***************************************************************************)
(* Properties                                                              *)
(***************************************************************************)
\* The sum of the amounts stored under a category, taken from the end of the
\* list towards its start.
RECURSIVE CategorySum(_, _)
CategorySum(txs, c) ==
    IF txs = <<>> THEN 0
    ELSE CategorySum(SubSeq(txs, 1, Len(txs) - 1), c)
            + (IF txs[Len(txs)].Category = c THEN txs[Len(txs)].Amount ELSE 0)

\* The step appended exactly one transaction carrying tx's amount, category
\* and description, and left the transactions before it as they were.
Appended(tx) ==
    /\ Len(transactions') = Len(transactions) + 1
    /\ SubSeq(transactions', 1, Len(transactions)) = transactions
    /\ transactions'[Len(transactions')].Amount = tx.Amount
    /\ transactions'[Len(transactions')].Category = tx.Category
    /\ transactions'[Len(transactions')].Description = tx.Description

BudgetAdd == program = "budget" /\ last'.op = "AddTransaction"

\* C1: AddTransaction with a nonzero amount A in a category with a budget of
\* limit L and stored total T succeeds and appends the transaction iff
\* T + A <= L; otherwise it returns the budget-exceeded error and leaves the
\* transaction list unchanged.  The budget map is unchanged either way.
C1_BudgetGuard ==
    [][(BudgetAdd /\ last'.tx.Amount # 0 /\ last'.tx.Category \in DOMAIN budgets)
        => LET tx == last'.tx
               T == CategorySum(transactions, tx.Category)
               L == budgets[tx.Category].Limit
           IN /\ budgets' = budgets
              /\ IF T + tx.Amount <= L
                 THEN last'.err = Nil /\ Appended(tx)
                 ELSE /\ last'.err.kind = "BudgetExceeded"
                      /\ transactions' = transactions]_vars

\* a transaction was refused for its budget although an earlier negative
\* amount had lowered the category's total
C1_Witness ==
    /\ program = "budget"
    /\ last.op = "AddTransaction"
    /\ last.err.kind = "BudgetExceeded"
    /\ \E i \in 1..Len(transactions) :
          transactions[i].Category = last.tx.Category /\ transactions[i].Amount < 0

\* C2: AddTransaction with amount 0 fails with the zero-amount error in either
\* program, with or without a budget for the category, and leaves the
\* transaction list and the budget map unchanged.
C2_ZeroAmountRejected ==
    [][(last'.op = "AddTransaction" /\ last'.tx.Amount = 0)
        => /\ last'.err = ErrZeroAmount
           /\ transactions' = transactions
           /\ budgets' = budgets]_vars

\* a zero amount was refused in a category whose budget still had room
C2_Witness ==
    /\ program = "budget"
    /\ last.op = "AddTransaction"
    /\ last.tx.Amount = 0
    /\ last.err = ErrZeroAmount
    /\ last.tx.Category \in DOMAIN budgets
    /\ CategorySum(transactions, last.tx.Category) < budgets[last.tx.Category].Limit
    /\ transactions # <<>>

\* C3: the stored transaction at position i has ID i; a successful
\* AddTransaction appends one transaction after those already stored, and a
\* rejected one stores nothing, so it consumes no identifier.
C3_SequentialIDs ==
    [][/\ \A i \in 1..Len(transactions') : transactions'[i].ID = i
       /\ last'.op = "AddTransaction"
            => IF last'.err = Nil
               THEN /\ Appended(last'.tx)
                    /\ transactions'[Len(transactions')].ID = Len(transactions) + 1
               ELSE transactions' = transactions]_vars

\* two or more transactions are stored, numbered by position, and the last
\* call was rejected without storing anything
C3_Witness ==
    /\ Len(transactions) >= 2
    /\ last.op = "AddTransaction"
    /\ last.err # Nil
    /\ transactions[Len(transactions)].ID = Len(transactions)

\* C4: in a category without an entry in the budget map, AddTransaction with
\* any nonzero amount succeeds and appends the transaction.
C4_NoBudgetAccepts ==
    [][(BudgetAdd /\ last'.tx.Amount # 0 /\ last'.tx.Category \notin DOMAIN budgets)
        => /\ last'.err = Nil
           /\ Appended(last'.tx)
           /\ budgets' = budgets]_vars

\* a positive amount was accepted without a budget, on top of a positive
\* total, while the other category has a budget that it would exceed
C4_Witness ==
    /\ program = "budget"
    /\ last.op = "AddTransaction"
    /\ last.err = Nil
    /\ last.tx.Amount > 0
    /\ last.tx.Category \notin DOMAIN budgets
    /\ \E c \in DOMAIN budgets :
          CategorySum(transactions, last.tx.Category) > budgets[c].Limit

\* C5: SetBudget with an empty category or a limit <= 0 returns an error and
\* leaves the budget map and the transaction list as they were; every stored
\* budget has a non-empty category equal to its key and a positive limit.
C5_InvalidBudgetRejected ==
    [][/\ (last'.op = "SetBudget" /\ (last'.b.Category = "" \/ last'.b.Limit <= 0))
            => /\ last'.err # Nil
               /\ budgets' = budgets
               /\ transactions' = transactions
       /\ \A k \in DOMAIN budgets' :
            /\ k # ""
            /\ budgets'[k].Category = k
            /\ budgets'[k].Limit > 0]_vars

\* a limit of zero was refused for a category that has a budget
C5_Witness ==
    /\ last.op = "SetBudget"
    /\ last.b.Limit = 0
    /\ last.err.kind = "NonPositiveLimit"
    /\ last.b.Category \in DOMAIN budgets

\* C6: a successful SetBudget for a category that has a budget replaces that
\* entry by the new budget and changes no other entry, and the AddTransaction
\* that follows it in that category is accepted iff total + amount is at most
\* the new limit.
C6_ResetReplaces ==
    [][/\ (last'.op = "SetBudget" /\ last'.err = Nil
             /\ last'.b.Category \in DOMAIN budgets)
            => /\ DOMAIN budgets' = DOMAIN budgets
               /\ \A k \in DOMAIN budgets :
                     budgets'[k] = IF k = last'.b.Category THEN last'.b ELSE budgets[k]
       /\ (last.op = "SetBudget" /\ last.err = Nil /\ last.old.exists
             /\ BudgetAdd /\ last'.tx.Amount # 0
             /\ last'.tx.Category = last.b.Category)
            => LET T == CategorySum(transactions, last.b.Category)
               IN IF T + last'.tx.Amount <= last.b.Limit
                  THEN last'.err = Nil /\ Appended(last'.tx)
                  ELSE last'.err.kind = "BudgetExceeded"
                       /\ transactions' = transactions]_vars

\* a budget was raised, with another period, so that an amount of 1 that the
\* old limit refused now fits
C6_Witness ==
    /\ last.op = "SetBudget"
    /\ last.err = Nil
    /\ last.old.exists
    /\ last.old.budget.Period # last.b.Period
    /\ LET T == CategorySum(transactions, last.b.Category)
       IN T + 1 > last.old.budget.Limit /\ T + 1 <= budgets[last.b.Category].Limit

\* SetBudget rejects the record.
Rejected(b) == b.Category = "" \/ b.Limit <= 0

\* The budget map after the first n records of the list were set, in order,
\* on top of bs: a category the records name holds the last record naming
\* it, every other category holds what it held.
AfterRecords(bs, list, n) ==
    LET named == {list[i].Category : i \in 1..n}
        lastFor(c) == CHOOSE i \in 1..n :
                         /\ list[i].Category = c
                         /\ \A j \in (i + 1)..n : list[j].Category # c
    IN [c \in DOMAIN bs \cup named |->
           IF c \in named THEN list[lastFor(c)] ELSE bs[c]]

\* C7: LoadBudgets over a decoded list sets the records in order and stops at
\* the first record SetBudget rejects, with an error naming that record's
\* category: the records before it stay set, no record after it is set.  If
\* no record is rejected, all are set and nil is returned.
C7_LoadStopsAtFirstFailure ==
    [][(last'.op = "LoadBudgets" /\ last'.r.decodes)
        => LET list == last'.r.list
               bad == {i \in 1..Len(list) : Rejected(list[i])}
           IN /\ transactions' = transactions
              /\ IF bad = {}
                 THEN /\ last'.err = Nil
                      /\ budgets' = AfterRecords(budgets, list, Len(list))
                 ELSE LET k == CHOOSE i \in bad : \A j \in bad : i <= j
                      IN /\ last'.err.kind = "SetFailure"
                         /\ last'.err.category = list[k].Category
                         /\ budgets' = AfterRecords(budgets, list, k - 1)]_vars

\* a load failed at its second record: the first record is set, and the
\* valid third record, of a category without a budget, is not
C7_Witness ==
    /\ last.op = "LoadBudgets"
    /\ last.err.kind = "SetFailure"
    /\ Len(last.r.list) >= 3
    /\ ~Rejected(last.r.list[1])
    /\ Rejected(last.r.list[2])
    /\ ~Rejected(last.r.list[3])
    /\ budgets[last.r.list[1].Category] = last.r.list[1]
    /\ last.r.list[3].Category \notin DOMAIN budgets

\* C8: GetCategoryTotal(c) returns the sum of the amounts of the stored
\* transactions whose category is exactly c, 0 when there are none, computed
\* from the list as it is at the call; the call changes neither store.
C8_CategoryTotal ==
    [][last'.op = "GetCategoryTotal"
        => /\ last'.total = CategorySum(transactions, last'.category)
           /\ (~HasCategory(transactions, last'.category) => last'.total = 0)
           /\ transactions' = transactions
           /\ budgets' = budgets]_vars

\* the total of "food" was asked for while "Food" has transactions as well,
\* and the two totals differ
C8_Witness ==
    /\ last.op = "GetCategoryTotal"
    /\ last.category = "food"
    /\ last.total # 0
    /\ HasCategory(transactions, "Food")
    /\ CategorySum(transactions, "Food") # last.total

ListedWrites ==
    {"WriteListedElement", "TruncateListed", "WriteListedKey", "DeleteListedKey"}

\* C9: ListTransactions and ListBudgets return the store's content at the
\* time of the call, and a later write to the returned collection changes
\* neither the transaction list nor the budget map.
C9_ListReturnsCopy ==
    [][/\ last'.op = "ListTransactions"
            => /\ listed'.kind = "transactions"
               /\ listed'.elems = transactions
               /\ transactions' = transactions /\ budgets' = budgets
       /\ last'.op = "ListBudgets"
            => /\ listed'.kind = "budgets"
               /\ listed'.elems = budgets
               /\ transactions' = transactions /\ budgets' = budgets
       /\ last'.op \in ListedWrites
            => /\ listed' # listed
               /\ transactions' = transactions /\ budgets' = budgets]_vars

\* the caller overwrote an element of a listed, non-empty transaction list
C9_Witness ==
    /\ last.op = "WriteListedElement"
    /\ listed.kind = "transactions"
    /\ Len(transactions) = Len(listed.elems)
    /\ listed.elems # transactions
    /\ \A i \in 1..Len(transactions) : transactions[i].ID = i

\* C10: for a category whose budget was first set while no transaction of the
\* category was stored, and whose limit was never set lower afterwards, the
\* category total is at most the category's limit.
C10_TotalWithinBudget ==
    \A c \in Categories :
        ceiling[c] = "ok"
            => c \in DOMAIN budgets
               /\ CategorySum(transactions, c) <= budgets[c].Limit

\* such a category stands exactly at its limit, after a negative amount, and
\* the last call was refused for the budget
C10_Witness ==
    /\ last.op = "AddTransaction"
    /\ last.err.kind = "BudgetExceeded"
    /\ ceiling[last.tx.Category] = "ok"
    /\ CategorySum(transactions, last.tx.Category) = budgets[last.tx.Category].Limit
    /\ \E i \in 1..Len(transactions) : transactions[i].Amount < 0

====
